---------------------------- MODULE Spec2Model ----------------------------
(***************************************************************************)
(* A model of perfometer's core (src/perfometer/_core.py): the sample-size *)
(* estimator (get_z_value, get_required_sample_size) and the adaptive      *)
(* benchmark loop (benchmark, with its closures run and check_max_time).   *)
(*                                                                         *)
(* Numbers.  Durations, max_time and allowed_deviation are integers in one *)
(* common unit (a clock tick).  A confidence level is an integer number of *)
(* hundredths (95 is 0.95).  A z-value is an integer number of thousandths *)
(* (1960 is 1.960).  The estimator's expression                            *)
(*     ceil((z * stdev(data) / allowed_deviation) ** 2)                    *)
(* is evaluated exactly, as the ceiling of the rational number             *)
(*     z^2 * (n*Sum(x^2) - Sum(x)^2) / (n * (n-1) * allowed_deviation^2),  *)
(* the real-number value of the floating-point expression of the source.   *)
(***************************************************************************)
EXTENDS Integers, Sequences, FiniteSets, TLC

(***************************************************************************)
(* Bounds of the model.                                                    *)
(***************************************************************************)
\* the largest duration of one run, in ticks
MaxDur == 2
\* the largest number of invocations of the target in one benchmark call
MaxRuns == 8
\* the longest data passed to a direct call of the estimator
MaxData == 3

\* z-values are kept in thousandths
ZScale == 1000
\* confidence levels are kept in hundredths
ConfScale == 100

Durations == 0..MaxDur

\* _min_runs values a caller passes
MinRunsSet == 0..3
\* _max_time values a caller passes, in ticks
MaxTimeSet == {2, 4}
\* _allowed_deviation values a caller of benchmark passes, in ticks
BenchDeviations == {1, 2}
\* _confidence_level values a caller of benchmark passes, in hundredths
BenchConfLevels == {80, 95, 99}
\* the positional and keyword arguments a caller passes for the target
ArgValues == {<<1>>, <<1, 2>>}
KwargValues == {"none", "b=2"}

\* inputs of a direct call of the estimator
EstDeviations == -2..3
EstConfLevels == {-150, -100, -50, 0, 50, 80, 90, 95, 99, 100, 150}

None == "None"

(***************************************************************************)
(* Results of a call: a value, or the exception raised.                    *)
(***************************************************************************)
Ok(v) == [ok |-> TRUE, val |-> v, err |-> "none"]
Raise(e) == [ok |-> FALSE, val |-> 0, err |-> e]

RECURSIVE SumSeq(_)
SumSeq(s) == IF s = <<>> THEN 0 ELSE Head(s) + SumSeq(Tail(s))

RECURSIVE SumSq(_)
SumSq(s) == IF s = <<>> THEN 0 ELSE Head(s) * Head(s) + SumSq(Tail(s))

Max2(a, b) == IF a >= b THEN a ELSE b

\* ceil(num / den) for num >= 0, den > 0
CeilDiv(num, den) == (num + den - 1) \div den

(***************************************************************************)
(* statistics.NormalDist().inv_cdf(p), p given in two-hundredths           *)
(* (p200 = 200 * p): it raises StatisticsError unless 0 < p < 1, else the  *)
(* standard normal quantile, here in thousandths.                          *)
(***************************************************************************)
Quantile(p200) ==
    CASE p200 = 50 -> -674
      [] p200 = 100 -> 0
      [] p200 = 150 -> 674
      [] p200 = 180 -> 1282
      [] p200 = 190 -> 1645
      [] p200 = 195 -> 1960
      [] p200 = 199 -> 2576

inv_cdf(p200) ==
    IF p200 <= 0 \/ p200 >= 2 * ConfScale
    THEN Raise("StatisticsError")
    ELSE Ok(Quantile(p200))

\* a get_z_value that validates its input as a probability: 0 < confidence_level < 1
get_z_value_validating(confidence_level) ==
    IF confidence_level <= 0 \/ confidence_level >= ConfScale
    THEN Raise("StatisticsError")
    ELSE inv_cdf(ConfScale + confidence_level)

\* get_z_value(confidence_level): inv_cdf((1 + confidence_level) / 2)
get_z_value(confidence_level) == inv_cdf(ConfScale + confidence_level)

(***************************************************************************)
(* statistics.stdev(data): StatisticsError below two data points.  The     *)
(* sample variance is VarNum(data) / VarDen(data) (Bessel-corrected).      *)
(***************************************************************************)
\* the variance's numerator without the mean subtracted
VarNumUncentred(data) == Len(data) * SumSq(data)

VarNum(data) == Len(data) * SumSq(data) - SumSeq(data) * SumSeq(data)
VarDen(data) == Len(data) * (Len(data) - 1)

\* line 23 with the deviation multiplied in, not divided by
CeilSquareTimes(z, data, allowed_deviation) ==
    CeilDiv(z * z * VarNum(data) * allowed_deviation * allowed_deviation,
            ZScale * ZScale * VarDen(data))

\* (z_value * std_dev / allowed_deviation) ** 2, rounded up: line 23 and the
\* math.ceil of line 24
CeilSquare(z, data, allowed_deviation) ==
    CeilDiv(z * z * VarNum(data),
            ZScale * ZScale * VarDen(data) * allowed_deviation * allowed_deviation)

\* a get_required_sample_size that rejects a non-positive allowed_deviation
get_required_sample_size_validating(data, allowed_deviation, confidence_level) ==
    LET z == get_z_value(confidence_level) IN
    IF ~z.ok THEN z
    ELSE IF Len(data) < 2 THEN Raise("StatisticsError")
    ELSE IF allowed_deviation <= 0 THEN Raise("ValueError")
    ELSE Ok(Max2(2, CeilSquare(z.val, data, allowed_deviation)))

\* a get_required_sample_size guarded against short data: the floor 2 below
\* two data points
get_required_sample_size_guarded(data, allowed_deviation, confidence_level) ==
    LET z == get_z_value(confidence_level) IN
    IF ~z.ok THEN z
    ELSE IF Len(data) < 2 THEN Ok(2)
    ELSE IF allowed_deviation = 0 THEN Raise("ZeroDivisionError")
    ELSE Ok(Max2(2, CeilSquare(z.val, data, allowed_deviation)))

\* get_required_sample_size(data, allowed_deviation, confidence_level)
get_required_sample_size(data, allowed_deviation, confidence_level) ==
    LET z == get_z_value(confidence_level) IN
    IF ~z.ok THEN z
    ELSE IF Len(data) < 2 THEN Raise("StatisticsError")
    ELSE IF allowed_deviation = 0 THEN Raise("ZeroDivisionError")
    ELSE Ok(Max2(2, CeilSquare(z.val, data, allowed_deviation)))


(***************************************************************************)
(* The state of one benchmark call (a Benchmark Session) and of one direct *)
(* call of the estimator.                                                  *)
(*   cfg        the arguments of the call: args, kwargs and the options    *)
(*   pc         the call's position: "for" (line 93), "while" (line 99),   *)
(*              "returned", "raised"; "idle" when benchmark is not called  *)
(*   i          iterations of the for loop of line 93 already started      *)
(*   timings    the list the name timings is bound to (lines 92, 84, 97)   *)
(*   history    the duration of every completed run, in execution order    *)
(*   received   the arguments the target received, one entry per call      *)
(*   checks     the number of check_max_time calls so far                  *)
(*   est_log    the data of every get_required_sample_size call so far     *)
(*   result     the returned list, None before the return                  *)
(*   error      the exception benchmark raised, "none" before              *)
(*   e_pc, e_data, e_dev, e_conf, e_out                                    *)
(*              a direct call of get_z_value / get_required_sample_size:   *)
(*              its position, its inputs and its outcome                   *)
(*   sess       two benchmark calls in progress at once: for each its      *)
(*              cfg, pc, i, history, result and error as above, and calls, *)
(*              the number of invocations of its target                    *)
(*   lists      the list objects the two calls' name timings is bound to   *)
(***************************************************************************)
VARIABLES cfg, pc, i, timings, history, received, checks, est_log, result, error,
          e_pc, e_data, e_dev, e_conf, e_out, sess, lists

benchVars == <<cfg, pc, i, timings, history, received, checks, est_log, result, error>>
estVars == <<e_pc, e_data, e_dev, e_conf, e_out>>
pairVars == <<sess, lists>>
vars == <<cfg, pc, i, timings, history, received, checks, est_log, result, error,
          e_pc, e_data, e_dev, e_conf, e_out, sess, lists>>

Configs ==
    [args : ArgValues, kwargs : KwargValues,
     allowed_deviation : BenchDeviations, confidence_level : BenchConfLevels,
     warmup : BOOLEAN, min_runs : MinRunsSet, max_time : MaxTimeSet]

\* the defaults of benchmark's signature (lines 31-35), for the state in which
\* benchmark is not called; max_time is in ticks
DefaultConfig ==
    [args |-> <<1>>, kwargs |-> "none",
     allowed_deviation |-> 1, confidence_level |-> 95,
     warmup |-> TRUE, min_runs |-> 3, max_time |-> 4]

\* int(_warmup): range(_min_runs + _warmup) adds the flag as 0 or 1
WarmupRuns(c) == IF c.warmup THEN 1 ELSE 0

\* range(_min_runs + _warmup), line 93
InitialRuns(c) == c.min_runs + WarmupRuns(c)

\* line 82 without the keyword arguments: func(*args)
ForwardArgsOnly(c) == [args |-> c.args, kwargs |-> "none"]

\* func(*args, **kwargs), line 82: what the target is called with
Forward(c) == [args |-> c.args, kwargs |-> c.kwargs]

\* line 77 with >= for >
check_max_time_at_limit(t, max_time) == SumSeq(t) >= max_time

\* check_max_time, lines 76-77: total_time > _max_time
check_max_time(t, max_time) == SumSeq(t) > max_time

\* line 97 slicing the wrong end: timings[:-1]
TrimLast(t, warmup) == IF warmup /\ t # <<>> THEN SubSeq(t, 1, Len(t) - 1) ELSE t

\* line 97 without the test of line 96: the first timing is always dropped
TrimAlways(t, warmup) == IF t # <<>> THEN Tail(t) ELSE t

\* lines 96-97: timings = timings[1:] when _warmup
TrimWarmup(t, warmup) == IF warmup /\ t # <<>> THEN Tail(t) ELSE t

\* line 99 stopping one short: len(timings) + 1 < required
LoopContinuesOneShort(t, required) == Len(t) + 1 < required

\* line 99 with <= for <
LoopContinuesAtEqual(t, required) == Len(t) <= required

\* the while condition of line 99, given the estimator's value
LoopContinues(t, required) == Len(t) < required

\* run() with line 84 in a finally clause: the failing run's time is recorded too
run_recording_failure(dur, raises, next_pc) ==
    /\ received' = Append(received, Forward(cfg))
    /\ timings' = Append(timings, dur)
    /\ history' = Append(history, dur)
    /\ IF raises
       THEN /\ pc' = "raised"
            /\ error' = "target"
            /\ UNCHANGED checks
       ELSE /\ checks' = checks + 1
            /\ IF check_max_time(timings', cfg.max_time)
               THEN pc' = "raised" /\ error' = "budget"
               ELSE pc' = next_pc /\ error' = error
    /\ UNCHANGED <<cfg, result, estVars, pairVars>>

\* run() bound to the list of line 92: after line 97 has rebound timings, the
\* appends go to the old list and the list the while condition reads stays
run_appending_to_old_list(dur, raises, next_pc) ==
    /\ received' = Append(received, Forward(cfg))
    /\ IF raises
       THEN /\ pc' = "raised"
            /\ error' = "target"
            /\ UNCHANGED <<timings, history, checks>>
       ELSE /\ timings' = IF next_pc = "for" THEN Append(timings, dur) ELSE timings
            /\ history' = Append(history, dur)
            /\ checks' = checks + 1
            /\ IF check_max_time(timings', cfg.max_time)
               THEN pc' = "raised" /\ error' = "budget"
               ELSE pc' = next_pc /\ error' = error
    /\ UNCHANGED <<cfg, result, estVars, pairVars>>

(***************************************************************************)
(* run(), lines 80-85, with the target's outcome: it raises, or it returns *)
(* (any value, discarded) after dur ticks.  The duration is appended and   *)
(* the budget checked on the list timings is bound to when run is called.  *)
(***************************************************************************)
run(dur, raises, next_pc) ==
    /\ received' = Append(received, Forward(cfg))
    /\ IF raises
       THEN /\ pc' = "raised"
            /\ error' = "target"
            /\ UNCHANGED <<timings, history, checks>>
       ELSE /\ timings' = Append(timings, dur)
            /\ history' = Append(history, dur)
            /\ checks' = checks + 1
            /\ IF check_max_time(timings', cfg.max_time)
               THEN pc' = "raised" /\ error' = "budget"
               ELSE pc' = next_pc /\ error' = error
    /\ UNCHANGED <<cfg, result, estVars, pairVars>>

\* one iteration of the for loop of lines 93-94
InitialRun ==
    /\ pc = "for"
    /\ i < InitialRuns(cfg)
    /\ Len(received) < MaxRuns
    /\ \E dur \in Durations, raises \in BOOLEAN : run(dur, raises, "for")
    /\ i' = i + 1
    /\ UNCHANGED est_log

\* the for loop is exhausted: lines 96-97
DiscardWarmup ==
    /\ pc = "for"
    /\ i = InitialRuns(cfg)
    /\ timings' = TrimWarmup(timings, cfg.warmup)
    /\ pc' = "while"
    /\ UNCHANGED <<cfg, i, history, received, checks, est_log, result, error, estVars, pairVars>>

\* line 99 with the target computed once, from the timings of the initial
\* phase, and kept
RequiredCached ==
    get_required_sample_size(
        SubSeq(history, 1 + WarmupRuns(cfg), InitialRuns(cfg)),
        cfg.allowed_deviation, cfg.confidence_level)

\* the estimator call of the while condition, line 99
Required == get_required_sample_size(timings, cfg.allowed_deviation, cfg.confidence_level)

\* line 99 true, line 100: one more run
AdaptiveRun ==
    /\ pc = "while"
    /\ Required.ok
    /\ LoopContinues(timings, Required.val)
    /\ Len(received) < MaxRuns
    /\ est_log' = Append(est_log, timings)
    /\ \E dur \in Durations, raises \in BOOLEAN : run(dur, raises, "while")
    /\ UNCHANGED i

\* line 99 false, line 102: return timings
Return ==
    /\ pc = "while"
    /\ Required.ok
    /\ ~LoopContinues(timings, Required.val)
    /\ est_log' = Append(est_log, timings)
    /\ result' = timings
    /\ pc' = "returned"
    /\ UNCHANGED <<cfg, i, timings, history, received, checks, error, estVars, pairVars>>

\* line 99: the estimator raises, and benchmark with it
EstimatorRaises ==
    /\ pc = "while"
    /\ ~Required.ok
    /\ est_log' = Append(est_log, timings)
    /\ pc' = "raised"
    /\ error' = Required.err
    /\ UNCHANGED <<cfg, i, timings, history, received, checks, result, estVars, pairVars>>

(***************************************************************************)
(* A direct call of get_z_value or of get_required_sample_size.            *)
(***************************************************************************)
Call_get_z_value ==
    /\ e_pc = "call"
    /\ e_out' = get_z_value(e_conf)
    /\ e_pc' = "z_done"
    /\ UNCHANGED <<e_data, e_dev, e_conf, benchVars, pairVars>>

Call_get_required_sample_size ==
    /\ e_pc = "call"
    /\ e_out' = get_required_sample_size(e_data, e_dev, e_conf)
    /\ e_pc' = "size_done"
    /\ UNCHANGED <<e_data, e_dev, e_conf, benchVars, pairVars>>

(***************************************************************************)
(* Two benchmark calls whose steps interleave: the target of one calls     *)
(* benchmark itself, or two callers alternate.  Each call executes lines   *)
(* 92-102 as above, on its own frame sess[s]; the list its name timings is *)
(* bound to is the object lists[TimingsList(s)].                           *)
(***************************************************************************)
Sessions == {1, 2}

\* the durations of the runs of interleaved calls: none, or the longest
PairDurations == {0, MaxDur}

\* the options of interleaved calls
PairConfigs ==
    {c \in Configs : /\ c.args = <<1>>
                     /\ c.kwargs = "none"
                     /\ c.allowed_deviation = 1
                     /\ c.confidence_level = 95
                     /\ c.min_runs \in {1, 2}
                     /\ c.max_time = 4}

\* timings as one list of the module, shared by all calls
SharedList(s) == 1

\* line 92, timings: list[float] = []: a new list for each call
TimingsList(s) == s

\* the list the name timings of call s is bound to
TimingsOf(s) == lists[TimingsList(s)]

\* the estimator call of line 99 in call s
PairRequired(s) ==
    get_required_sample_size(TimingsOf(s), sess[s].cfg.allowed_deviation,
                             sess[s].cfg.confidence_level)

\* lines 80-85 in call s
PairRun(s, dur, raises, next_pc) ==
    LET appended == Append(TimingsOf(s), dur)
        exceeded == check_max_time(appended, sess[s].cfg.max_time)
        started  == IF next_pc = "for" THEN 1 ELSE 0
    IN
    IF raises
    THEN /\ sess' = [sess EXCEPT ![s].calls = @ + 1,
                                 ![s].i = @ + started,
                                 ![s].pc = "raised",
                                 ![s].error = "target"]
         /\ UNCHANGED lists
    ELSE /\ lists' = [lists EXCEPT ![TimingsList(s)] = appended]
         /\ sess' = [sess EXCEPT ![s].calls = @ + 1,
                                 ![s].i = @ + started,
                                 ![s].history = Append(@, dur),
                                 ![s].pc = IF exceeded THEN "raised" ELSE next_pc,
                                 ![s].error = IF exceeded THEN "budget" ELSE @]

\* lines 93-94 in call s
PairInitialRun(s) ==
    /\ sess[s].pc = "for"
    /\ sess[s].i < InitialRuns(sess[s].cfg)
    /\ sess[s].calls < MaxRuns
    /\ \E dur \in PairDurations, raises \in BOOLEAN : PairRun(s, dur, raises, "for")
    /\ UNCHANGED <<benchVars, estVars>>

\* lines 96-97 in call s
PairDiscardWarmup(s) ==
    /\ sess[s].pc = "for"
    /\ sess[s].i = InitialRuns(sess[s].cfg)
    /\ lists' = [lists EXCEPT ![TimingsList(s)] = TrimWarmup(@, sess[s].cfg.warmup)]
    /\ sess' = [sess EXCEPT ![s].pc = "while"]
    /\ UNCHANGED <<benchVars, estVars>>

\* lines 99-100 in call s
PairAdaptiveRun(s) ==
    /\ sess[s].pc = "while"
    /\ PairRequired(s).ok
    /\ LoopContinues(TimingsOf(s), PairRequired(s).val)
    /\ sess[s].calls < MaxRuns
    /\ \E dur \in PairDurations, raises \in BOOLEAN : PairRun(s, dur, raises, "while")
    /\ UNCHANGED <<benchVars, estVars>>

\* lines 99 and 102 in call s
PairReturn(s) ==
    /\ sess[s].pc = "while"
    /\ PairRequired(s).ok
    /\ ~LoopContinues(TimingsOf(s), PairRequired(s).val)
    /\ sess' = [sess EXCEPT ![s].pc = "returned", ![s].result = TimingsOf(s)]
    /\ UNCHANGED <<lists, benchVars, estVars>>

\* line 99 in call s: the estimator raises
PairEstimatorRaises(s) ==
    /\ sess[s].pc = "while"
    /\ ~PairRequired(s).ok
    /\ sess' = [sess EXCEPT ![s].pc = "raised", ![s].error = PairRequired(s).err]
    /\ UNCHANGED <<lists, benchVars, estVars>>

\* a frame of benchmark that is not running
IdleSession ==
    [cfg |-> DefaultConfig, pc |-> "idle", i |-> 0, history |-> <<>>,
     calls |-> 0, result |-> None, error |-> "none"]

\* a frame of benchmark at line 93
NewSession(c) ==
    [cfg |-> c, pc |-> "for", i |-> 0, history |-> <<>>,
     calls |-> 0, result |-> None, error |-> "none"]

PairIdle ==
    /\ sess = [s \in Sessions |-> IdleSession]
    /\ lists = [s \in Sessions |-> <<>>]

DataSeqs == UNION {[1..n -> Durations] : n \in 0..MaxData}

BenchIdle ==
    /\ cfg = DefaultConfig
    /\ pc = "idle"
    /\ i = 0
    /\ timings = <<>>
    /\ history = <<>>
    /\ received = <<>>
    /\ checks = 0
    /\ est_log = <<>>
    /\ result = None
    /\ error = "none"

EstIdle ==
    /\ e_pc = "idle"
    /\ e_data = <<>>
    /\ e_dev = 1
    /\ e_conf = 95
    /\ e_out = None

\* benchmark is called: line 92 has run
Init ==
    /\ cfg \in Configs
    /\ pc = "for"
    /\ i = 0
    /\ timings = <<>>
    /\ history = <<>>
    /\ received = <<>>
    /\ checks = 0
    /\ est_log = <<>>
    /\ result = None
    /\ error = "none"
    /\ EstIdle
    /\ PairIdle

Next ==
    \/ InitialRun
    \/ DiscardWarmup
    \/ AdaptiveRun
    \/ Return
    \/ EstimatorRaises

Spec == Init /\ [][Next]_vars

\* benchmark runs on one thread that executes statement after statement: a
\* step that can be taken is taken
FairSpec == Spec /\ WF_vars(Next)

\* the estimator is called directly
EstInit ==
    /\ BenchIdle
    /\ e_pc = "call"
    /\ e_data \in DataSeqs
    /\ e_dev \in EstDeviations
    /\ e_conf \in EstConfLevels
    /\ e_out = None
    /\ PairIdle

EstNext ==
    \/ Call_get_z_value
    \/ Call_get_required_sample_size

EstSpec == EstInit /\ [][EstNext]_vars

\* two calls of benchmark are in progress
PairInit ==
    /\ BenchIdle
    /\ EstIdle
    /\ \E c1, c2 \in PairConfigs : sess = <<NewSession(c1), NewSession(c2)>>
    /\ lists = [s \in Sessions |-> <<>>]

PairNext ==
    \E s \in Sessions :
        \/ PairInitialRun(s)
        \/ PairDiscardWarmup(s)
        \/ PairAdaptiveRun(s)
        \/ PairReturn(s)
        \/ PairEstimatorRaises(s)

PairSpec == PairInit /\ [][PairNext]_vars

(***************************************************************************)
(* Properties of the benchmark loop, checked under Spec.                   *)
(***************************************************************************)
\* the post-warmup durations of the runs lo..hi of the call, in execution order
Runs(lo, hi) == SubSeq(history, lo, hi)

\* the initial phase is over and every one of its runs completed
InitialPhaseDone == pc # "for" /\ Len(history) >= InitialRuns(cfg)

\* the estimator's value on the post-warmup timings of the initial phase
InitialRequired ==
    get_required_sample_size(Runs(1 + WarmupRuns(cfg), InitialRuns(cfg)),
                             cfg.allowed_deviation, cfg.confidence_level)

\* a run of the target is about to start: line 94 or line 100 is reached
RunStarts ==
    \/ pc = "for" /\ i < InitialRuns(cfg)
    \/ pc = "while" /\ Required.ok /\ LoopContinues(timings, Required.val)

\* C1: when benchmark returns with min_runs >= 2, the returned list has at
\* least min_runs elements and at least as many as the sample size the
\* estimator requires for that very list: the sample has converged.
C1_ConvergedOnReturn ==
    (pc = "returned" /\ cfg.min_runs >= 2) =>
        LET req == get_required_sample_size(result, cfg.allowed_deviation,
                                            cfg.confidence_level)
        IN  /\ Len(result) >= cfg.min_runs
            /\ req.ok
            /\ Len(result) >= req.val

\* C1's case: a return after adaptive runs, with a required size above 2
C1_Witness ==
    /\ pc = "returned"
    /\ cfg.min_runs >= 2
    /\ Len(result) > cfg.min_runs
    /\ get_required_sample_size(result, cfg.allowed_deviation,
                                cfg.confidence_level).val > 2

\* C2: whenever a run of the target starts, in the initial or the adaptive
\* phase, the durations of all runs completed so far in the call, the
\* warmup run included, sum to at most max_time.
C2_BudgetCoversAllRuns ==
    RunStarts => SumSeq(history) <= cfg.max_time

\* C3: the budget is checked after every completed run; a run that brings
\* the sum of the recorded timings above max_time makes benchmark raise the
\* budget error at once, with no further invocation and nothing returned;
\* a call whose initial runs together exceed max_time never returns.
C3_State ==
    /\ checks = Len(history)
    /\ error = "none" => SumSeq(timings) <= cfg.max_time
    /\ error = "budget" =>
          /\ pc = "raised"
          /\ result = None
          /\ SumSeq(timings) > cfg.max_time
          /\ Len(received) = Len(history)
    /\ pc = "returned" => SumSeq(Runs(1, InitialRuns(cfg))) <= cfg.max_time

C3_Step ==
    /\ (Len(history') = Len(history) + 1 /\ SumSeq(timings') > cfg.max_time)
          => (pc' = "raised" /\ error' = "budget" /\ result' = None)
    /\ pc = "raised" => (received' = received /\ result' = result)

C3_BudgetCheckedAfterEveryRun == []C3_State /\ [][C3_Step]_vars

\* C3's case: the budget error in the initial phase, initial runs left undone
C3_Witness ==
    /\ error = "budget"
    /\ 1 < Len(received)
    /\ Len(received) < InitialRuns(cfg)

\* C4: when the target raises on its k-th invocation benchmark raises that
\* error: the target was invoked k times, the k-1 earlier durations are all
\* that is recorded, no budget check and no estimator call follows the
\* failing run, and nothing is returned.
C4_State ==
    error = "target" =>
        /\ pc = "raised"
        /\ result = None
        /\ Len(received) = Len(history) + 1
        /\ checks = Len(history)
        /\ Len(timings) + (IF Len(received) > InitialRuns(cfg) THEN WarmupRuns(cfg) ELSE 0)
              = Len(history)
        /\ Len(est_log) = (IF Len(received) > InitialRuns(cfg)
                           THEN Len(received) - InitialRuns(cfg) ELSE 0)

C4_Step ==
    /\ (error = "none" /\ error' = "target") =>
          /\ Len(received') = Len(received) + 1
          /\ UNCHANGED <<timings, history, checks, result>>
    /\ error = "target" => UNCHANGED <<received, checks, est_log, result, error>>

C4_TargetErrorPropagates == []C4_State /\ [][C4_Step]_vars

\* C4's case: the target raises in the adaptive phase, on a later invocation
C4_Witness ==
    /\ error = "target"
    /\ Len(received) > InitialRuns(cfg) + 1

\* C5: with warmup the first run's duration is dropped once, after the
\* initial runs and before the first estimator call: every estimator input
\* and the result are the durations of runs 2.. in execution order (runs
\* 1.. without warmup), so the target ran len(result) + warmup times.
C5_WarmupDroppedOnce ==
    /\ pc = "for" => (timings = history /\ est_log = <<>>)
    /\ pc \in {"while", "returned"} =>
          timings = Runs(1 + WarmupRuns(cfg), Len(history))
    /\ \A j \in 1..Len(est_log) :
          est_log[j] = Runs(1 + WarmupRuns(cfg), InitialRuns(cfg) + j - 1)
    /\ pc = "returned" =>
          /\ result = Runs(1 + WarmupRuns(cfg), Len(history))
          /\ Len(received) = Len(history)
          /\ Len(received) = Len(result) + WarmupRuns(cfg)

\* C5's case: a return with warmup after adaptive runs, the warmup run's
\* duration differing from every returned one
C5_Witness ==
    /\ pc = "returned"
    /\ cfg.warmup
    /\ Len(result) > cfg.min_runs
    /\ \A k \in 1..Len(result) : result[k] # history[1]

\* C6 as stated: if min_runs + warmup is at least the required sample size
\* of the initial phase's post-warmup timings, no run beyond the initial
\* ones is performed and the result is the initial timings minus warmup.
C6_NoAdaptiveRunIfInitialRunsSuffice ==
    (InitialPhaseDone /\ InitialRequired.ok
        /\ InitialRuns(cfg) >= InitialRequired.val) =>
        /\ Len(received) = InitialRuns(cfg)
        /\ pc = "returned" =>
              result = Runs(1 + WarmupRuns(cfg), InitialRuns(cfg))

\* C6 amended: if min_runs, the number of post-warmup timings of the initial
\* phase, is at least their required sample size, no run beyond the initial
\* ones is performed and the result is the initial timings minus warmup.
C6_NoAdaptiveRunIfMinRunsSuffice ==
    (InitialPhaseDone /\ InitialRequired.ok
        /\ cfg.min_runs >= InitialRequired.val) =>
        /\ Len(received) = InitialRuns(cfg)
        /\ ~RunStarts
        /\ pc = "returned" =>
              result = Runs(1 + WarmupRuns(cfg), InitialRuns(cfg))

\* C6's case: a return with warmup where min_runs equals a required size above 2
C6_Witness ==
    /\ pc = "returned"
    /\ cfg.warmup
    /\ InitialRequired.ok
    /\ InitialRequired.val > 2
    /\ cfg.min_runs = InitialRequired.val
    /\ Len(received) = InitialRuns(cfg)

\* C7: every invocation of the target receives exactly the positional and
\* keyword arguments given to benchmark, the same on every run, and none of
\* the options.
C7_ArgumentsForwardedUnchanged ==
    \A k \in 1..Len(received) :
        /\ DOMAIN received[k] = {"args", "kwargs"}
        /\ received[k].args = cfg.args
        /\ received[k].kwargs = cfg.kwargs

\* C7's case: benchmark(f, 1, b=2) after warmup, fixed and adaptive runs
C7_Witness ==
    /\ pc = "returned"
    /\ cfg.warmup
    /\ cfg.args = <<1>>
    /\ cfg.kwargs = "b=2"
    /\ Len(received) > InitialRuns(cfg)

(***************************************************************************)
(* Properties of the estimator, checked under EstSpec.                     *)
(***************************************************************************)
\* a confidence level strictly inside (0, 1)
ValidConf(c) == 0 < c /\ c < ConfScale

\* the direct call had at least 2 data points and a valid confidence level
ValidDataAndConf == Len(e_data) >= 2 /\ ValidConf(e_conf)

\* var(a) <= var(b), for samples of at least two points
VarLeq(a, b) == VarNum(a) * VarDen(b) <= VarNum(b) * VarDen(a)

\* C8 as stated: with at least 2 data points and a valid confidence level,
\* get_required_sample_size raises for every allowed_deviation <= 0.
C8_NonPositiveDeviationRaises ==
    (e_pc = "size_done" /\ ValidDataAndConf /\ e_dev <= 0) => ~e_out.ok

\* C8 amended: with at least 2 data points and a valid confidence level,
\* get_required_sample_size raises (ZeroDivisionError) for allowed_deviation
\* = 0; for a negative allowed_deviation it raises nothing and returns the
\* sample size of the deviation's absolute value.
C8_ZeroDeviationRaisesNegativeMirrors ==
    (e_pc = "size_done" /\ ValidDataAndConf) =>
        /\ e_dev = 0 => (~e_out.ok /\ e_out.err = "ZeroDivisionError")
        /\ e_dev < 0 =>
              /\ e_out.ok
              /\ e_out.val >= 2
              /\ e_out = get_required_sample_size(e_data, 0 - e_dev, e_conf)
        /\ e_dev > 0 => e_out.ok

\* C8's case: a negative deviation gives a sample size above the floor
C8_Witness ==
    /\ e_pc = "size_done"
    /\ ValidDataAndConf
    /\ e_dev < 0
    /\ e_out.ok
    /\ e_out.val > 2

\* C9 as stated: get_z_value raises for every confidence_level outside
\* (0, 1), and returns a z-value only inside it; get_required_sample_size
\* raises with it.
C9_ConfidenceOutsideUnitIntervalRaises ==
    /\ e_pc = "z_done" => (e_out.ok <=> ValidConf(e_conf))
    /\ (e_pc = "size_done" /\ ~ValidConf(e_conf)) => ~e_out.ok

\* C9 amended: get_z_value raises (StatisticsError) exactly for
\* confidence_level <= -1 or >= 1, and get_required_sample_size with it;
\* for confidence_level = 0 and for negative values in (-1, 0) it raises
\* nothing and returns a finite z <= 0 (0 at 0, the negated z of the
\* absolute value below); inside (0, 1) z is positive.
C9_ConfidenceOutsideMinusOneOneRaises ==
    /\ e_pc = "z_done" =>
          /\ ~e_out.ok <=> (e_conf <= 0 - ConfScale \/ e_conf >= ConfScale)
          /\ ~e_out.ok => e_out.err = "StatisticsError"
          /\ e_conf = 0 => (e_out.ok /\ e_out.val = 0)
          /\ (0 - ConfScale < e_conf /\ e_conf < 0) =>
                (e_out.ok /\ e_out.val < 0
                   /\ e_out.val = 0 - get_z_value(0 - e_conf).val)
          /\ ValidConf(e_conf) => (e_out.ok /\ e_out.val > 0)
    /\ e_pc = "size_done" =>
          /\ (e_conf <= 0 - ConfScale \/ e_conf >= ConfScale) =>
                (~e_out.ok /\ e_out.err = "StatisticsError")
          /\ (0 - ConfScale < e_conf /\ e_conf < ConfScale
                /\ Len(e_data) >= 2 /\ e_dev # 0) => e_out.ok

\* C9's case: get_z_value returns for a negative confidence level
C9_Witness ==
    /\ e_pc = "z_done"
    /\ e_conf < 0
    /\ e_out.ok
    /\ e_out.val < 0

\* C10: over valid inputs get_required_sample_size is at least 2 and
\* monotone: not smaller for a higher confidence level, not smaller for
\* data of a larger sample standard deviation, not larger for a larger
\* allowed_deviation, the other two inputs being the same.
C10_Monotone ==
    (e_pc = "size_done" /\ ValidDataAndConf /\ e_dev > 0) =>
        /\ e_out.ok
        /\ e_out.val >= 2
        /\ \A c2 \in EstConfLevels :
              (ValidConf(c2) /\ c2 >= e_conf) =>
                  get_required_sample_size(e_data, e_dev, c2).val >= e_out.val
        /\ \A d2 \in EstDeviations :
              (d2 >= e_dev) =>
                  get_required_sample_size(e_data, d2, e_conf).val <= e_out.val
        /\ \A data2 \in DataSeqs :
              (Len(data2) >= 2 /\ VarLeq(e_data, data2)) =>
                  get_required_sample_size(data2, e_dev, e_conf).val >= e_out.val

\* C10's case: a size above the floor that a higher confidence level raises,
\* a larger deviation lowers and data of a larger deviation raise
C10_Witness ==
    /\ e_pc = "size_done"
    /\ ValidDataAndConf
    /\ e_dev > 0
    /\ e_out.ok
    /\ e_out.val > 2
    /\ \E c2 \in EstConfLevels :
          ValidConf(c2) /\ c2 > e_conf
             /\ get_required_sample_size(e_data, e_dev, c2).val > e_out.val
    /\ \E d2 \in EstDeviations :
          d2 > e_dev /\ get_required_sample_size(e_data, d2, e_conf).val < e_out.val
    /\ \E data2 \in DataSeqs :
          Len(data2) >= 2 /\ VarLeq(e_data, data2)
             /\ get_required_sample_size(data2, e_dev, e_conf).val > e_out.val

(***************************************************************************)
(* Further properties of the benchmark loop, checked under Spec.           *)
(***************************************************************************)
\* the estimator's value for data, with the call's options
RequiredFor(data) ==
    get_required_sample_size(data, cfg.allowed_deviation, cfg.confidence_level)

\* C12: the required sample size is evaluated afresh, on the whole current
\* post-warmup sample, before every adaptive run, so benchmark stops at the
\* first count at which the sample has converged: for a result of length n
\* and every k with min_runs <= k < n, the first k timings are fewer than
\* the size required for them.
C12_StopsAtFirstConvergence ==
    /\ \A j \in 1..Len(est_log) :
          est_log[j] = SubSeq(history, 1 + WarmupRuns(cfg), InitialRuns(cfg) + j - 1)
    /\ (pc = "returned" /\ cfg.min_runs >= 2) =>
          /\ Len(est_log) = Len(result) - cfg.min_runs + 1
          /\ ~LoopContinues(result, RequiredFor(result).val)
          /\ \A k \in cfg.min_runs..(Len(result) - 1) :
                /\ RequiredFor(SubSeq(result, 1, k)).ok
                /\ k < RequiredFor(SubSeq(result, 1, k)).val

\* C12's case: a return after adaptive runs during which the required size
\* rose and fell, the result being longer than the size required after the
\* initial phase and shorter than the size required at a later moment
C12_Witness ==
    /\ pc = "returned"
    /\ cfg.min_runs >= 2
    /\ Len(result) > InitialRequired.val
    /\ InitialRequired.val > cfg.min_runs
    /\ \E j \in 1..(Len(est_log) - 1) :
          RequiredFor(est_log[j + 1]).val > RequiredFor(est_log[j]).val
    /\ \E j \in 1..(Len(est_log) - 1) :
          RequiredFor(est_log[j + 1]).val < RequiredFor(est_log[j]).val
    /\ \E j \in 1..Len(est_log) : RequiredFor(est_log[j]).val > Len(result)

\* C14: in a call with min_runs >= 2, with or without warmup, every call of
\* get_required_sample_size receives at least 2 post-warmup timings, and
\* the estimator never raises for want of data.
C14_EstimatorHasTwoPoints ==
    cfg.min_runs >= 2 =>
        /\ \A j \in 1..Len(est_log) : Len(est_log[j]) >= 2
        /\ pc = "while" => (Len(timings) >= 2 /\ Required.ok)
        /\ error # "StatisticsError"

\* C14's case: the first estimator call of a call with warmup and min_runs = 2
\* receives exactly 2 timings, the warmup one dropped
C14_Witness ==
    /\ cfg.min_runs = 2
    /\ cfg.warmup
    /\ Len(est_log) >= 2
    /\ Len(est_log[1]) = 2
    /\ Len(history) >= 3

\* C15: a call with min_runs < 2 is not guarded: unless the budget or the
\* target fails first it performs its min_runs + warmup initial runs and
\* then raises the estimator's domain error at the first estimator call,
\* with warmup as without; no call returns fewer than 2 timings.
C15_State ==
    /\ pc = "returned" => (cfg.min_runs >= 2 /\ Len(result) >= 2)
    /\ cfg.min_runs < 2 =>
          /\ result = None
          /\ Len(received) <= InitialRuns(cfg)
          /\ pc = "while" =>
                /\ Len(history) = InitialRuns(cfg)
                /\ Len(timings) = cfg.min_runs
                /\ ~Required.ok
                /\ Required.err = "StatisticsError"
          /\ pc = "raised" => error \in {"budget", "target", "StatisticsError"}
          /\ error = "StatisticsError" =>
                /\ Len(received) = InitialRuns(cfg)
                /\ Len(history) = InitialRuns(cfg)
                /\ Len(est_log) = 1
                /\ Len(est_log[1]) = cfg.min_runs

C15_Step ==
    (cfg.min_runs < 2 /\ pc = "while") =>
        (pc' = "raised" /\ error' = "StatisticsError" /\ received' = received)

C15_MinRunsBelowTwoRaises == []C15_State /\ [][C15_Step]_vars

\* C15's case: min_runs = 1 with warmup: two runs, one timing left, the
\* domain error at the first estimator call
C15_Witness ==
    /\ cfg.min_runs = 1
    /\ cfg.warmup
    /\ pc = "raised"
    /\ error = "StatisticsError"
    /\ Len(received) = 2
    /\ Len(timings) = 1

\* every timing of a list is the same
AllEqual(t) == \A a, b \in 1..Len(t) : t[a] = t[b]

\* C16: if the post-warmup timings of the initial phase are all equal and
\* min_runs >= 2, the required sample size is 2 and, the budget kept,
\* benchmark returns exactly those min_runs timings after min_runs + warmup
\* invocations of the target, whatever the warmup run took.
C16_ZeroVarianceReturnsMinRuns ==
    (InitialPhaseDone /\ cfg.min_runs >= 2
        /\ AllEqual(Runs(1 + WarmupRuns(cfg), InitialRuns(cfg)))) =>
        /\ InitialRequired = Ok(2)
        /\ Len(received) = InitialRuns(cfg)
        /\ pc \in {"while", "returned"} \/ (pc = "raised" /\ error = "budget")
        /\ pc = "while" => (Required = Ok(2) /\ ~RunStarts)
        /\ pc = "returned" =>
              /\ result = Runs(1 + WarmupRuns(cfg), InitialRuns(cfg))
              /\ Len(result) = cfg.min_runs

\* C16's case: a return of min_runs = 3 equal non-zero timings after a
\* warmup run of another duration
C16_Witness ==
    /\ pc = "returned"
    /\ cfg.warmup
    /\ cfg.min_runs = 3
    /\ AllEqual(result)
    /\ result[1] > 0
    /\ history[1] # result[1]
    /\ Len(received) = 4

(***************************************************************************)
(* Termination, checked under FairSpec.                                    *)
(***************************************************************************)
\* the call is over
Terminated == pc \in {"returned", "raised"}

\* C13: every benchmark call terminates.  With a valid configuration and a
\* target that always returns, durations being bounded and non-negative,
\* the call ends by returning a converged sample or by raising the budget
\* error; the loop never runs on with the required size ahead of the count
\* (it never gets as far as the bound MaxRuns of this model).
C13_Outcome ==
    (Terminated /\ cfg.min_runs >= 2 /\ error # "target") =>
        \/ /\ pc = "returned"
           /\ ~LoopContinues(result, RequiredFor(result).val)
        \/ /\ pc = "raised"
           /\ error = "budget"

C13_LoopEndsBeforeBound == RunStarts => Len(received) < MaxRuns

C13_Terminates ==
    /\ <>Terminated
    /\ []C13_Outcome
    /\ []C13_LoopEndsBeforeBound

\* C13's case: a return after four adaptive runs and more
C13_Witness ==
    /\ pc = "returned"
    /\ Len(result) >= cfg.min_runs + 4
    /\ Len(est_log) >= 5

(***************************************************************************)
(* Interleaved calls, checked under PairSpec.                              *)
(***************************************************************************)
\* the outcome of a call: its position, its error, its result and how many
\* of the given durations it did not get to
Outcome(p, e, r, unused) == [pc |-> p, error |-> e, result |-> r, unused |-> unused]

\* what benchmark does alone from line 99 on, with timings t, when its next
\* runs take the durations rest (and the run after them raises, if failing)
RECURSIVE AloneWhile(_, _, _, _)
AloneWhile(c, t, rest, failing) ==
    LET req == get_required_sample_size(t, c.allowed_deviation, c.confidence_level) IN
    IF ~req.ok THEN Outcome("raised", req.err, None, Len(rest))
    ELSE IF ~LoopContinues(t, req.val) THEN Outcome("returned", "none", t, Len(rest))
    ELSE IF rest = <<>>
         THEN IF failing THEN Outcome("raised", "target", None, 0)
                         ELSE Outcome("running", "none", None, 0)
    ELSE IF check_max_time(Append(t, Head(rest)), c.max_time)
         THEN Outcome("raised", "budget", None, Len(rest) - 1)
    ELSE AloneWhile(c, Append(t, Head(rest)), Tail(rest), failing)

\* what benchmark does alone from line 93 on, k initial runs done
RECURSIVE AloneFor(_, _, _, _, _)
AloneFor(c, t, rest, k, failing) ==
    IF k = InitialRuns(c) THEN AloneWhile(c, TrimWarmup(t, c.warmup), rest, failing)
    ELSE IF rest = <<>>
         THEN IF failing THEN Outcome("raised", "target", None, 0)
                         ELSE Outcome("running", "none", None, 0)
    ELSE IF check_max_time(Append(t, Head(rest)), c.max_time)
         THEN Outcome("raised", "budget", None, Len(rest) - 1)
    ELSE AloneFor(c, Append(t, Head(rest)), Tail(rest), k + 1, failing)

\* the outcome of a call that runs alone with the durations h
Alone(c, h, failing) == AloneFor(c, <<>>, h, 0, failing)

\* call s is about to run its target
PairRunStarts(s) ==
    \/ sess[s].pc = "for" /\ sess[s].i < InitialRuns(sess[s].cfg)
    \/ /\ sess[s].pc = "while"
       /\ PairRequired(s).ok
       /\ LoopContinues(TimingsOf(s), PairRequired(s).val)

\* C11: two benchmark calls whose runs interleave share no mutable state:
\* the recorded timings of each are its own runs' durations (minus its own
\* warmup run after the trim), and each continues, returns or fails as it
\* would alone with the same durations.
C11_SessionsIndependent ==
    \A s \in Sessions :
        LET f == sess[s]
            a == Alone(f.cfg, f.history, f.error = "target")
        IN  /\ a.unused = 0
            /\ f.pc = "for" => TimingsOf(s) = f.history
            /\ f.pc = "while" =>
                  TimingsOf(s) = SubSeq(f.history, 1 + WarmupRuns(f.cfg), Len(f.history))
            /\ PairRunStarts(s) => a.pc = "running"
            /\ f.pc \in {"returned", "raised"} =>
                  /\ a.pc = f.pc
                  /\ a.error = f.error
                  /\ a.result = f.result

\* C11's case: both calls are in their adaptive phase at once, about to run
\* again, with different timings; one has a warmup run and the other none
C11_Witness ==
    /\ PairRunStarts(1) /\ PairRunStarts(2)
    /\ sess[1].pc = "while" /\ sess[2].pc = "while"
    /\ sess[1].cfg.warmup /\ ~sess[2].cfg.warmup
    /\ Len(sess[1].history) >= 4 /\ Len(sess[2].history) >= 3
    /\ TimingsOf(1) # TimingsOf(2)

=============================================================================
